---- MODULE Spec2Model ----
(***************************************************************************)
(* Model of the recipe web application's request handlers                  *)
(* (recipes/webapp/views.py, routed by recipes/webapp/urls.py).            *)
(*                                                                         *)
(* The state is the Recipe table plus the response to the last request.    *)
(* Every handler is one action: it reads the request (requesting user, URL *)
(* arguments, submitted form), runs the mixins' dispatch checks, then the  *)
(* handler body, and leaves the response in resp.                          *)
(*                                                                         *)
(* Message texts are Russian in the source; they are named here by ASCII   *)
(* labels (MsgAdded, MsgChanged, MsgDeleted, MsgSaveError, MsgDeleteError).*)
(***************************************************************************)
EXTENDS Integers, Sequences, FiniteSets, TLC

VARIABLES
    recipes,    \* the Recipe table: pk -> [title, category, author, created_date]
    nextPk,     \* the next primary key the database hands out
    clock,      \* the time source behind created_date
    creator,    \* history: pk -> the identity whose create request made the row
    deleted,    \* history: the pks whose delete request succeeded
    resp        \* the response to the last request

vars == <<recipes, nextPk, clock, creator, deleted, resp>>

-----------------------------------------------------------------------------
(* Bounds of the model *)

MaxRecipes == 2         \* rows ever created under Spec
MaxListRecipes == 6     \* rows ever created under SpecList
MaxUnorderedRows == 2   \* an unordered query is explored up to this many rows

-----------------------------------------------------------------------------
(* Program constants and request inputs *)

paginate_by == 5

Users == {"alice", "bob"}
AnonymousUser == "AnonymousUser"
Requesters == Users \cup {AnonymousUser}
UsernameArgs == Users \cup {"nobody"}

Categories == {1, 2}
CategoryArgs == Categories \cup {3}

\* Requested page numbers.
PageArgs == {1, 2}

\* Submitted titles, as sequences of characters.
TitleInputs ==
    { <<" ">>, <<"a">>, <<" ", "a">>, <<"A", "b">> }

ListTitle == <<"a">>

NoArg == "none"
NoTitle == <<"-">>
NoForm == [title |-> NoTitle, category |-> NoArg, author |-> AnonymousUser]

MsgAdded == "success: recipe added"
MsgChanged == "success: recipe changed"
MsgDeleted == "success: recipe deleted"
MsgSaveError == "error: saving the recipe failed"
MsgDeleteError == "error: deleting the recipe failed"

-----------------------------------------------------------------------------
(* Pure helpers *)

Range(s) == {s[i] : i \in DOMAIN s}

Min(a, b) == IF a <= b THEN a ELSE b

IsSpace(c) == c = " "

RECURSIVE LStrip(_)
LStrip(t) ==
    IF t = <<>> THEN <<>>
    ELSE IF IsSpace(Head(t)) THEN LStrip(Tail(t)) ELSE t

RECURSIVE RStrip(_)
RStrip(t) ==
    IF t = <<>> THEN <<>>
    ELSE IF IsSpace(t[Len(t)]) THEN RStrip(SubSeq(t, 1, Len(t) - 1)) ELSE t

\* str.strip()
Strip(t) == RStrip(LStrip(t))

UpperChar(c) ==
    CASE c = "a" -> "A"
      [] c = "b" -> "B"
      [] OTHER -> c

\* str.upper()
Upper(t) == [i \in DOMAIN t |-> UpperChar(t[i])]

\* form.cleaned_data['title']: the form's text field strips the submitted value.
CleanedTitle(t) == Strip(t)

\* The form is valid when the required title is not blank after cleaning and the
\* chosen category exists.
FormIsValid(form) ==
    /\ CleanedTitle(form.title) # <<>>
    /\ form.category \in Categories

\* What a handler answers, with the request it answers: the requesting user, the URL
\* argument and page, and the form as submitted when the handler read it.
Response(view, user, arg, page, status, messages, object_list, form) ==
    [view |-> view, user |-> user, arg |-> arg, page |-> page, status |-> status,
     messages |-> messages, object_list |-> object_list, form |-> form]

-----------------------------------------------------------------------------
Init ==
    /\ recipes = <<>>
    /\ nextPk = 1
    /\ clock = 1
    /\ creator = <<>>
    /\ deleted = {}
    /\ resp = Response("none", AnonymousUser, NoArg, NoArg, "none", <<>>, <<>>, NoForm)

-----------------------------------------------------------------------------
(* Access mixins *)

\* Mutant of LoginRequired: the login check is left out.
LoginRequired_Off(u) == TRUE

\* LoginRequiredMixin.dispatch: the request goes on only for an authenticated user;
\* anyone else is redirected to the login page.
LoginRequired(u) == u # AnonymousUser

\* Mutant of test_func: every authenticated user passes.
test_func_AnyUser(u, pk) == TRUE

\* test_func of RecipeUpdateView and of RecipeDeleteView (the two are identical):
\* the requesting user is the recipe's author.
test_func(u, pk) ==
    IF u = recipes[pk].author THEN TRUE ELSE FALSE

\* dispatch of a view declared (LoginRequiredMixin, UserPassesTestMixin, ...):
\* login first, then test_func, whose get_object() raises Http404 for a missing row;
\* a failed test for an authenticated user raises PermissionDenied.
Dispatch(u, pk) ==
    IF ~LoginRequired(u) THEN "redirect_login"
    ELSE IF pk \notin DOMAIN recipes THEN "not_found"
    ELSE IF ~test_func(u, pk) THEN "forbidden"
    ELSE "pass"

-----------------------------------------------------------------------------
(* The create, update and delete handlers *)

\* Mutant of FormValidTitle: the title is stored as cleaned, not uppercased.
FormValidTitle_NoUpper(form) == CleanedTitle(form.title)

\* The model field defaults a saved instance relies on: the primary key the database
\* assigns (never one it assigned before) and the creation timestamp (the clock
\* advances between two creates, so no two rows share a timestamp).
NewPk == nextPk
Now == clock

\* form_valid, title line: the cleaned title, uppercased.
FormValidTitle(form) == Upper(CleanedTitle(form.title))

\* Mutant of CreateInstance: author is a form field, taken from the submission.
CreateInstance_ClientAuthor(u, form) ==
    [title |-> Upper(CleanedTitle(form.title)),
     category |-> form.category,
     author |-> form.author,
     created_date |-> Now]

\* RecipeCreateView.form_valid: the instance that is saved. The form's fields do not
\* include author: a submitted author (form.author) is not read.
CreateInstance(u, form) ==
    [title |-> FormValidTitle(form),
     category |-> form.category,
     author |-> u,
     created_date |-> Now]

\* RecipeUpdateView.form_valid: the instance that is saved.
UpdateInstance(old, u, form) ==
    [old EXCEPT !.author = u,
                !.title = FormValidTitle(form),
                !.category = form.category]

\* Mutant of DeleteObject: the row is left in the table.
DeleteObject_KeepsRow(pk) == recipes

\* The row removal behind DeleteView.delete.
DeleteObject(pk) == [k \in (DOMAIN recipes) \ {pk} |-> recipes[k]]

\* POST recipe/new/
RecipeCreateView(u, form, dbOk) ==
    IF ~LoginRequired(u)
    THEN /\ resp' = Response("create", u, NoArg, NoArg, "redirect_login", <<>>, <<>>, NoForm)
         /\ UNCHANGED <<recipes, nextPk, clock, creator, deleted>>
    ELSE IF ~FormIsValid(form)
    THEN /\ resp' = Response("create", u, NoArg, NoArg, "invalid", <<>>, <<>>, form)
         /\ UNCHANGED <<recipes, nextPk, clock, creator, deleted>>
    ELSE IF dbOk
    THEN /\ recipes' = recipes @@ (NewPk :> CreateInstance(u, form))
         /\ creator' = creator @@ (NewPk :> u)
         /\ nextPk' = nextPk + 1
         /\ clock' = clock + 1
         /\ resp' = Response("create", u, NewPk, NoArg, "redirect",
                             <<MsgAdded>>, <<>>, form)
         /\ UNCHANGED deleted
    ELSE /\ resp' = Response("create", u, NoArg, NoArg, "error",
                             <<MsgSaveError>>, <<>>, form)
         /\ UNCHANGED <<recipes, nextPk, clock, creator, deleted>>

\* POST recipe/<pk>/update/
RecipeUpdateView(u, pk, form, dbOk) ==
    LET d == Dispatch(u, pk) IN
    IF d # "pass"
    THEN /\ resp' = Response("update", u, pk, NoArg, d, <<>>, <<>>, NoForm)
         /\ UNCHANGED <<recipes, nextPk, clock, creator, deleted>>
    ELSE IF ~FormIsValid(form)
    THEN /\ resp' = Response("update", u, pk, NoArg, "invalid", <<>>, <<>>, form)
         /\ UNCHANGED <<recipes, nextPk, clock, creator, deleted>>
    ELSE IF dbOk
    THEN /\ recipes' = [recipes EXCEPT ![pk] = UpdateInstance(@, u, form)]
         /\ resp' = Response("update", u, pk, NoArg, "redirect",
                             <<MsgChanged>>, <<>>, form)
         /\ UNCHANGED <<nextPk, clock, creator, deleted>>
    ELSE /\ resp' = Response("update", u, pk, NoArg, "error", <<>>, <<>>, form)
         /\ UNCHANGED <<recipes, nextPk, clock, creator, deleted>>

\* Mutant of RecipeDeleteView: the row is removed before the access checks answer.
RecipeDeleteView_DeleteFirst(u, pk, dbOk) ==
    LET d == Dispatch(u, pk) IN
    /\ recipes' = IF pk \in DOMAIN recipes THEN DeleteObject(pk) ELSE recipes
    /\ creator' = [k \in (DOMAIN creator) \ {pk} |-> creator[k]]
    /\ deleted' = IF pk \in DOMAIN recipes THEN deleted \cup {pk} ELSE deleted
    /\ resp' = Response("delete", u, pk, NoArg, IF d = "pass" THEN "redirect" ELSE d,
                        IF d = "pass" THEN <<MsgDeleted>> ELSE <<>>, <<>>, NoForm)
    /\ UNCHANGED <<nextPk, clock>>

\* recipe/<pk>/delete/, a request served by the delete() method: the success message
\* is queued first, then the row is deleted; a failure adds the error message and
\* the exception goes on.
RecipeDeleteView(u, pk, dbOk) ==
    LET d == Dispatch(u, pk) IN
    IF d # "pass"
    THEN /\ resp' = Response("delete", u, pk, NoArg, d, <<>>, <<>>, NoForm)
         /\ UNCHANGED <<recipes, nextPk, clock, creator, deleted>>
    ELSE IF dbOk
    THEN /\ recipes' = DeleteObject(pk)
         /\ creator' = [k \in (DOMAIN creator) \ {pk} |-> creator[k]]
         /\ deleted' = deleted \cup {pk}
         /\ resp' = Response("delete", u, pk, NoArg, "redirect",
                             <<MsgDeleted>>, <<>>, NoForm)
         /\ UNCHANGED <<nextPk, clock>>
    ELSE /\ resp' = Response("delete", u, pk, NoArg, "error",
                             <<MsgDeleted, MsgDeleteError>>, <<>>, NoForm)
         /\ UNCHANGED <<recipes, nextPk, clock, creator, deleted>>

\* GET recipe/<pk>/
RecipeDetailView(pk) ==
    /\ resp' = IF pk \in DOMAIN recipes
               THEN Response("detail", AnonymousUser, pk, NoArg, "ok", <<>>, <<pk>>, NoForm)
               ELSE Response("detail", AnonymousUser, pk, NoArg, "not_found", <<>>, <<>>, NoForm)
    /\ UNCHANGED <<recipes, nextPk, clock, creator, deleted>>

-----------------------------------------------------------------------------
(* The listing handlers *)

\* order_by('-created_date') over the rows S: newest first.
RECURSIVE OrderByCreatedDesc(_)
OrderByCreatedDesc(S) ==
    IF S = {} THEN <<>>
    ELSE LET newest == CHOOSE r \in S :
                         \A q \in S : recipes[q].created_date <= recipes[r].created_date
         IN <<newest>> \o OrderByCreatedDesc(S \ {newest})

\* A query with no order_by: the database returns the rows in any order.
Unordered(S) ==
    {o \in [1..Cardinality(S) -> S] : \A i, j \in DOMAIN o : i # j => o[i] # o[j]}

\* Mutant of HomeQueryset: ordering = ['created_date'], oldest first.
HomeQueryset_OldestFirst ==
    LET d == OrderByCreatedDesc(DOMAIN recipes)
    IN [i \in DOMAIN d |-> d[Len(d) + 1 - i]]

\* RecipeListView: model = Recipe, ordering = ['-created_date']
HomeQueryset == OrderByCreatedDesc(DOMAIN recipes)

\* Mutant of UserQueryset: the author filter is left out.
UserQueryset_NoFilter(username) == OrderByCreatedDesc(DOMAIN recipes)

\* UserRecipeListView.get_queryset
UserQueryset(username) ==
    OrderByCreatedDesc({r \in DOMAIN recipes : recipes[r].author = username})

\* RecipeByCategoryView.get_queryset: the rows it filters
CategoryRows(category_id) ==
    {r \in DOMAIN recipes : recipes[r].category = category_id}

\* RecipeByCategoryView.get_queryset: filter(category=category), no order_by
CategoryQuerysets(category_id) == Unordered(CategoryRows(category_id))

\* Paginator.num_pages with orphans = 0 and allow_empty_first_page
NumPages(n) ==
    IF n = 0 THEN 1 ELSE (n + paginate_by - 1) \div paginate_by

\* Paginator.page(p).object_list: list[bottom:top]
PageOf(list, p) ==
    LET bottom == (p - 1) * paginate_by
        top == Min(bottom + paginate_by, Len(list))
    IN SubSeq(list, bottom + 1, top)

\* ListView with paginate_by: a page out of range is a 404.
PaginatedResponse(view, arg, list, p) ==
    IF p \in 1..NumPages(Len(list))
    THEN Response(view, AnonymousUser, arg, p, "ok", <<>>, PageOf(list, p), NoForm)
    ELSE Response(view, AnonymousUser, arg, p, "not_found", <<>>, <<>>, NoForm)

\* GET /?page=p
RecipeListView(p) ==
    /\ resp' = PaginatedResponse("home", NoArg, HomeQueryset, p)
    /\ UNCHANGED <<recipes, nextPk, clock, creator, deleted>>

\* GET user/<username>?page=p
UserRecipeListView(username, p) ==
    /\ resp' = IF username \in Users
               THEN PaginatedResponse("user", username, UserQueryset(username), p)
               ELSE Response("user", AnonymousUser, username, NoArg, "not_found",
                             <<>>, <<>>, NoForm)
    /\ UNCHANGED <<recipes, nextPk, clock, creator, deleted>>

\* GET recipes/category/<category_id>/
RecipeByCategoryView(category_id) ==
    /\ IF category_id \in Categories
       THEN \E o \in CategoryQuerysets(category_id) :
              resp' = Response("category", AnonymousUser, category_id, NoArg, "ok",
                               <<>>, o, NoForm)
       ELSE resp' = Response("category", AnonymousUser, category_id, NoArg, "not_found",
                             <<>>, <<>>, NoForm)
    /\ UNCHANGED <<recipes, nextPk, clock, creator, deleted>>

-----------------------------------------------------------------------------
(* Specifications *)

Forms == [title : TitleInputs, category : CategoryArgs, author : Users]

\* A request that dispatch rejects never has its form read or the database written:
\* one form and one database outcome stand for all of them.
AnyForm == [title |-> ListTitle, category |-> 1, author |-> "alice"]
FormsRead(passes) == IF passes THEN Forms ELSE {AnyForm}
DbOutcomes(passes) == IF passes THEN BOOLEAN ELSE {TRUE}

PkArgs == 1..(MaxRecipes + 1)

\* The handlers that change the table, and the detail page.
Next ==
    \/ /\ nextPk <= MaxRecipes
       /\ \E u \in Requesters :
            \E form \in FormsRead(LoginRequired(u)), dbOk \in DbOutcomes(LoginRequired(u)) :
              RecipeCreateView(u, form, dbOk)
    \/ \E u \in Requesters, pk \in PkArgs :
            \E form \in FormsRead(Dispatch(u, pk) = "pass"),
               dbOk \in DbOutcomes(Dispatch(u, pk) = "pass") :
              RecipeUpdateView(u, pk, form, dbOk)
    \/ \E u \in Requesters, pk \in PkArgs :
            \E dbOk \in DbOutcomes(Dispatch(u, pk) = "pass") :
              RecipeDeleteView(u, pk, dbOk)
    \/ \E pk \in PkArgs : RecipeDetailView(pk)

Spec == Init /\ [][Next]_vars

\* The listing handlers over the tables that create requests build.
NextList ==
    \/ /\ nextPk <= MaxListRecipes
       /\ \E u \in Users, c \in Categories :
            RecipeCreateView(u, [title |-> ListTitle, category |-> c, author |-> u], TRUE)
    \/ \E p \in PageArgs : RecipeListView(p)
    \/ \E username \in UsernameArgs, p \in PageArgs : UserRecipeListView(username, p)
    \/ \E category_id \in CategoryArgs :
         /\ Cardinality(CategoryRows(category_id)) <= MaxUnorderedRows
         /\ RecipeByCategoryView(category_id)

SpecList == Init /\ [][NextList]_vars

-----------------------------------------------------------------------------
(* Properties *)

\* A list of rows is in descending order of creation time.
IsNewestFirst(list) ==
    \A i, j \in DOMAIN list :
        i < j => recipes[list[i]].created_date >= recipes[list[j]].created_date

\* The position of row r in the descending order of creation time of the rows S.
RankIn(S, r) ==
    1 + Cardinality({q \in S : recipes[q].created_date > recipes[r].created_date})

\* The last request was a create or an update that saved its row, resp.arg.
Saved == resp.view \in {"create", "update"} /\ resp.status = "redirect"

\* C1: every existing recipe's author is the identity that issued the create request
\* for it, whatever author the client submitted and whatever updates followed.
C1_AuthorIsCreator ==
    \A pk \in DOMAIN recipes : recipes[pk].author = creator[pk]

\* C1 witness: a create whose submitted author differs from the requester was saved
\* with the requester as author.
C1_Witness ==
    /\ resp.view = "create" /\ resp.status = "redirect"
    /\ resp.form.author # resp.user
    /\ recipes[resp.arg].author = resp.user

\* C2: an update or delete request for an existing recipe by an authenticated user who
\* is not its author ends in permission-denied, and test_func is true exactly for
\* the author.
C2_NonAuthorDenied ==
    /\ [](\A u \in Requesters, pk \in DOMAIN recipes :
            test_func(u, pk) <=> (u = recipes[pk].author))
    /\ [][(/\ resp'.view \in {"update", "delete"}
           /\ resp'.user \in Users
           /\ resp'.arg \in DOMAIN recipes
           /\ recipes[resp'.arg].author # resp'.user)
          => resp'.status = "forbidden"]_vars

\* C2 witness: a delete request by an authenticated non-author was denied.
C2_Witness ==
    /\ resp.view = "delete" /\ resp.status = "forbidden"
    /\ resp.user \in Users
    /\ resp.arg \in DOMAIN recipes
    /\ recipes[resp.arg].author # resp.user

\* C3: the home listing answers page p with the recipes at positions 5(p-1)+1 .. 5p
\* of the descending order of creation time, at most 5 to a page, and every recipe is
\* on exactly one page.
C3_HomeListing ==
    LET all == DOMAIN recipes
        n == Cardinality(all)
        positions == {k \in 1..n : 5 * (resp.page - 1) + 1 <= k /\ k <= 5 * resp.page}
        queryset == HomeQueryset
        pages == [p \in 1..(n + 1) |-> PaginatedResponse("home", NoArg, queryset, p)]
    IN /\ (resp.view = "home" /\ resp.status = "ok") =>
            /\ Len(resp.object_list) <= 5
            /\ Len(resp.object_list) = Cardinality(positions)
            /\ \A i \in DOMAIN resp.object_list :
                 /\ resp.object_list[i] \in all
                 /\ RankIn(all, resp.object_list[i]) = 5 * (resp.page - 1) + i
       /\ (resp.view = "home" /\ resp.status = "not_found") => positions = {}
       /\ \A r \in all :
            Cardinality({p \in DOMAIN pages :
                           /\ pages[p].status = "ok"
                           /\ r \in Range(pages[p].object_list)}) = 1

\* C3 witness: the second page of the home listing was answered and holds a recipe.
C3_Witness ==
    /\ resp.view = "home" /\ resp.status = "ok"
    /\ resp.page = 2
    /\ resp.object_list # <<>>

\* C4: the category listing returns exactly the recipes of that category, and the
\* pages of a user's listing hold together exactly the recipes that user authored.
C4_FilteredListings ==
    /\ (resp.view = "category" /\ resp.status = "ok") =>
         /\ Range(resp.object_list) = {r \in DOMAIN recipes : recipes[r].category = resp.arg}
         /\ Len(resp.object_list) = Cardinality(Range(resp.object_list))
    /\ (resp.view = "user" /\ resp.status = "ok") =>
         Range(resp.object_list) \subseteq {r \in DOMAIN recipes : recipes[r].author = resp.arg}
    /\ \A u \in Users :
         LET queryset == UserQueryset(u)
             pages == [p \in 1..(Cardinality(DOMAIN recipes) + 1) |->
                         PaginatedResponse("user", u, queryset, p)]
         IN UNION {Range(pages[p].object_list) :
                     p \in {q \in DOMAIN pages : pages[q].status = "ok"}}
              = {r \in DOMAIN recipes : recipes[r].author = u}

\* C4 witness: the second page of a user's listing was answered while recipes of two
\* categories are in the table.
C4_Witness ==
    /\ resp.view = "user" /\ resp.status = "ok"
    /\ resp.page = 2
    /\ resp.object_list # <<>>
    /\ \E r, q \in DOMAIN recipes : recipes[r].category # recipes[q].category

\* C5 as claimed: the category listing and the username listing each return their
\* recipes in descending order of creation time.
C5_FilteredNewestFirst ==
    (resp.view \in {"category", "user"} /\ resp.status = "ok")
        => IsNewestFirst(resp.object_list)

\* C6: once a delete request for a recipe succeeded the recipe is not in the table,
\* and a detail request for its id answers not-found, whatever requests came between.
C6_DeletedStaysGone ==
    /\ deleted \cap DOMAIN recipes = {}
    /\ (resp.view = "detail" /\ resp.arg \in deleted) => resp.status = "not_found"

\* C6 witness: a detail request for a deleted id, with a recipe created after it in
\* the table.
C6_Witness ==
    /\ resp.view = "detail"
    /\ resp.arg \in deleted
    /\ \E pk \in DOMAIN recipes : pk > resp.arg

\* C7 as claimed: after a valid create or update with submitted title t the stored
\* title is the uppercased form of t.
C7_StoredIsUpperOfSubmitted ==
    Saved => recipes[resp.arg].title = Upper(resp.form.title)

\* C7 amended: after a valid create or update with submitted title t the stored title
\* is the uppercased form of t with its leading and trailing whitespace removed, and
\* every stored title equals its own uppercased form.
C7_StoredIsUpperOfStripped ==
    /\ Saved => recipes[resp.arg].title = Upper(Strip(resp.form.title))
    /\ \A pk \in DOMAIN recipes : recipes[pk].title = Upper(recipes[pk].title)

\* C7 witness: an update submitted a title with a leading space and lower-case
\* letters, and was saved.
C7_Witness ==
    /\ resp.view = "update" /\ resp.status = "redirect"
    /\ resp.form.title = <<" ", "a">>
    /\ recipes[resp.arg].title = <<"A">>

\* C8: a create request from an unauthenticated requester adds no recipe, and every
\* recipe's author is a user account.
C8_CreateNeedsLogin ==
    /\ [](\A pk \in DOMAIN recipes : recipes[pk].author \in Users)
    /\ [][(resp'.view = "create" /\ resp'.user \notin Users)
          => (recipes' = recipes /\ resp'.status = "redirect_login")]_vars

\* C8 witness: an unauthenticated create request was sent to the login page while the
\* table holds a recipe.
C8_Witness ==
    /\ resp.view = "create" /\ resp.status = "redirect_login"
    /\ resp.user = AnonymousUser
    /\ DOMAIN recipes # {}

\* C9: an update or delete request rejected by the access checks leaves the whole
\* table as it was.
C9_RejectedChangesNothing ==
    [][(/\ resp'.view \in {"update", "delete"}
        /\ resp'.status \in {"forbidden", "redirect_login"})
       => (recipes' = recipes /\ nextPk' = nextPk)]_vars

\* C9 witness: an update request by a non-author was rejected.
C9_Witness ==
    /\ resp.view = "update" /\ resp.status = "forbidden"
    /\ resp.arg \in DOMAIN recipes

\* C10 as claimed: the delete handler emits its success message only when the recipe
\* has been removed.
C10_SuccessOnlyWhenRemoved ==
    (resp.view = "delete" /\ MsgDeleted \in Range(resp.messages))
        => (resp.status = "redirect" /\ resp.arg \notin DOMAIN recipes)

====
